---- MODULE Spec2Model ----
(***************************************************************************)
(* Batch product-image refinement UI: the queue of BatchItem held by App,  *)
(* the processQueue run that walks it one collaborator call at a time, and *)
(* the user events that add, remove and clear items.                       *)
(*                                                                         *)
(* A step of the model is one of the program's uninterruptible pieces: a   *)
(* user event handler run to completion, or the part of processQueue       *)
(* between two awaits.  pc tells where processQueue stands:                *)
(*   "idle"  no run,                                                       *)
(*   "loop"  at the head of `for (const item of itemsToProcess)`,          *)
(*   "await" suspended in `await refineProductImage(...)`.                 *)
(* User events are macrotasks: they run only while the program is at rest  *)
(* (pc is "idle" or "await"), never between the continuation of an await   *)
(* and the next await.                                                     *)
(***************************************************************************)
EXTENDS Integers, Sequences, FiniteSets, TLC

\* ---------------------------------------------------------------- bounds
MaxItems == 3
MaxFiles == 2

\* ------------------------------------------------------- values and types
Undefined == "<undefined>"
Null == "<null>"

SQUARE == "1:1"
PORTRAIT == "3:4"
LANDSCAPE == "4:3"
WIDE == "16:9"
AspectRatio == {SQUARE, PORTRAIT, LANDSCAPE, WIDE}

\* The ratios and instructions the user picks in the explored runs.
RatioChoices == {SQUARE, PORTRAIT}
PromptChoices == {"", "pure white background"}

\* A JavaScript value used as a condition.
Truthy(v) == v # Undefined /\ v # Null /\ v # ""

\* The files a user can pick: a MIME type and the file's content.
FileTypes == {"image/png", "text/plain"}
FileData == {"a"}
Files == [type : FileTypes, data : FileData]
FileLists == UNION {[1..n -> Files] : n \in 1..MaxFiles}

StartsWithImage(type) == type \in {"image/png"}

\* FileReader.readAsDataURL
ReadAsDataURL(file) == "data:" \o file.type \o ";base64," \o file.data

RECURSIVE FilterFiles(_)
FilterFiles(files) ==
  IF files = <<>> THEN <<>>
  ELSE IF StartsWithImage(Head(files).type)
       THEN <<Head(files)>> \o FilterFiles(Tail(files))
       ELSE FilterFiles(Tail(files))

MapReadAsDataURL(files) == [k \in DOMAIN files |-> ReadAsDataURL(files[k])]

VARIABLES
  queue,          \* useState<BatchItem[]>
  customPrompt,   \* useState<string>
  aspectRatio,    \* useState<AspectRatio>
  isProcessing,   \* useState(false)
  nextId,         \* the next identifier crypto.randomUUID() hands out
  pendingReads,   \* batches of files being read by ImageUploader.processFiles
  itemsToProcess, \* processQueue's snapshot of the items it will walk
  idx,            \* position of the for-of iterator in itemsToProcess
  runPrompt,      \* customPrompt as closed over by the running processQueue
  runRatio,       \* aspectRatio as closed over by the running processQueue
  pc,             \* where processQueue stands
  inflight,       \* requests sent to the collaborator and not yet answered
  calls,          \* requests issued by the current run, in order
  results,        \* which item each answered call of the current run was for,
                  \* and whether it threw, in order
  lastOp          \* the operation that took the last step, the item it was
                  \* for, and for a call that threw, the message thrown

vars == <<queue, customPrompt, aspectRatio, isProcessing, nextId, pendingReads,
          itemsToProcess, idx, runPrompt, runRatio, pc, inflight, calls,
          results, lastOp>>

OpWith(name, id, arg) == [name |-> name, id |-> id, arg |-> arg]
Op(name, id) == OpWith(name, id, Undefined)

Ids(q) == {q[k].id : k \in DOMAIN q}
ItemOf(q, id) == q[CHOOSE k \in DOMAIN q : q[k].id = id]
AtRest == pc \in {"idle", "await"}

\* ------------------------------------------------------------- the store
NewItem(id, img) ==
  [id |-> id, original |-> img, generated |-> Null, status |-> "idle",
   errorMessage |-> Undefined, error |-> Undefined]

\* An update that puts the new items in front of the existing ones.
HandleImagesSelectPrepend(prev, base64s, first) ==
  [k \in DOMAIN base64s |-> NewItem(first + k - 1, base64s[k])] \o prev

HandleImagesSelectUpdate(prev, base64s, first) ==
  prev \o [k \in DOMAIN base64s |-> NewItem(first + k - 1, base64s[k])]

HandleDeleteItemUpdate(prev, id) == SelectSeq(prev, LAMBDA item : item.id # id)

\* A mark-processing update that puts back an item it does not find.
MarkProcessingUpsert(prev, id) ==
  IF id \in Ids(prev)
  THEN [k \in DOMAIN prev |->
          IF prev[k].id = id
          THEN [prev[k] EXCEPT !.status = "processing", !.error = Undefined]
          ELSE prev[k]]
  ELSE Append(prev, [NewItem(id, "") EXCEPT !.status = "processing"])

MarkProcessing(prev, id) ==
  [k \in DOMAIN prev |->
     IF prev[k].id = id
     THEN [prev[k] EXCEPT !.status = "processing", !.error = Undefined]
     ELSE prev[k]]

\* A success update that also puts the result in place of the source image.
MarkSuccessReplaces(prev, id, result) ==
  [k \in DOMAIN prev |->
     IF prev[k].id = id
     THEN [prev[k] EXCEPT !.status = "success", !.generated = result,
                          !.original = result]
     ELSE prev[k]]

MarkSuccess(prev, id, result) ==
  [k \in DOMAIN prev |->
     IF prev[k].id = id
     THEN [prev[k] EXCEPT !.status = "success", !.generated = result]
     ELSE prev[k]]

\* A catch that stores error.message as it comes.
ErrorTextNoFallback(message) == message

ErrorText(message) == IF Truthy(message) THEN message ELSE "Failed"

\* A catch that stores the message and leaves the status as it is.
MarkErrorKeepsStatus(prev, id, message) ==
  [k \in DOMAIN prev |->
     IF prev[k].id = id
     THEN [prev[k] EXCEPT !.errorMessage = ErrorText(message)]
     ELSE prev[k]]

\* A catch that puts the failed item back to idle with its message.
MarkErrorResets(prev, id, message) ==
  [k \in DOMAIN prev |->
     IF prev[k].id = id
     THEN [prev[k] EXCEPT !.status = "idle", !.errorMessage = ErrorText(message)]
     ELSE prev[k]]

MarkError(prev, id, message) ==
  [k \in DOMAIN prev |->
     IF prev[k].id = id
     THEN [prev[k] EXCEPT !.status = "error", !.errorMessage = ErrorText(message)]
     ELSE prev[k]]

Init ==
  /\ queue = <<>>
  /\ customPrompt = ""
  /\ aspectRatio = SQUARE
  /\ isProcessing = FALSE
  /\ nextId = 1
  /\ pendingReads = <<>>
  /\ itemsToProcess = <<>>
  /\ idx = 1
  /\ runPrompt = ""
  /\ runRatio = SQUARE
  /\ pc = "idle"
  /\ inflight = {}
  /\ calls = <<>>
  /\ results = <<>>
  /\ lastOp = Op("init", 0)

\* ------------------------------------------------------ the collaborator
\* What ai.models.generateContent can answer: a rejection carrying an error,
\* a response without candidates, or a response whose first candidate holds
\* parts; a part is its inlineData.data (Undefined for a part without
\* inlineData, "" for empty data).
PartData == {Undefined, "", "iVBORw0KGgo"}
PartLists == UNION {[1..n -> PartData] : n \in 0..2}
RejectMessages == {Undefined, ""}
NoImageMessage == "No image data received from Gemini."
ApiOutcomes ==
  {[kind |-> "rejected", parts |-> <<>>, message |-> m] : m \in RejectMessages}
  \cup {[kind |-> "nocandidates", parts |-> <<>>, message |-> Undefined]}
  \cup {[kind |-> "response", parts |-> p, message |-> Undefined] : p \in PartLists}

DefaultInstruction ==
  "Keep the product faithful to the original but significantly enhance the visual appeal."
PromptHead == "Act as a professional high-end product photographer. User specific instructions: "
PromptText(customInstruction) ==
  PromptHead \o (IF Truthy(customInstruction) THEN customInstruction ELSE DefaultInstruction)

\* A request sent without the ratio argument: the default ratio applies.
RequestDefaultRatio(item, customInstruction, ratio) ==
  [id |-> item.id, image |-> item.original,
   text |-> PromptText(customInstruction), aspectRatio |-> SQUARE]

\* The request refineProductImage sends for an item; id is the item it is for.
Request(item, customInstruction, ratio) ==
  [id |-> item.id, image |-> item.original,
   text |-> PromptText(customInstruction), aspectRatio |-> ratio]

\* The first part that carries image data, 0 when none does.
FirstImagePart(parts) ==
  IF \E k \in DOMAIN parts : Truthy(parts[k])
  THEN CHOOSE k \in DOMAIN parts :
         /\ Truthy(parts[k])
         /\ \A j \in 1..(k - 1) : ~Truthy(parts[j])
  ELSE 0

\* A refineProductImage that returns null when the answer holds no image.
RefineProductImageNull(outcome) ==
  IF outcome.kind = "rejected"
  THEN [threw |-> TRUE, value |-> Null, message |-> outcome.message]
  ELSE IF outcome.kind = "response" /\ FirstImagePart(outcome.parts) # 0
  THEN [threw |-> FALSE,
        value |-> "data:image/png;base64," \o outcome.parts[FirstImagePart(outcome.parts)],
        message |-> Undefined]
  ELSE [threw |-> FALSE, value |-> Null, message |-> Undefined]

\* What refineProductImage does with the collaborator's answer: it returns
\* the image as a data URL, or throws.
RefineProductImage(outcome) ==
  IF outcome.kind = "rejected"
  THEN [threw |-> TRUE, value |-> Null, message |-> outcome.message]
  ELSE IF outcome.kind = "response" /\ FirstImagePart(outcome.parts) # 0
  THEN [threw |-> FALSE,
        value |-> "data:image/png;base64," \o outcome.parts[FirstImagePart(outcome.parts)],
        message |-> Undefined]
  ELSE [threw |-> TRUE, value |-> Null, message |-> NoImageMessage]

\* ------------------------------------------------------------ user events
UploaderDisabled == isProcessing
SettingsDisabled == isProcessing
\* A remove button that is never disabled.
RemoveDisabledNever(item) == FALSE

RemoveDisabled(item) == item.status = "processing"
\* A clear button that is shown whenever the queue holds an item.
ClearShownAlways == Len(queue) > 0

ClearShown == Len(queue) > 0 /\ ~isProcessing
PendingCount == Cardinality({k \in DOMAIN queue : queue[k].status = "idle"})
ProcessButtonDisabled == isProcessing \/ PendingCount = 0

RECURSIVE PendingImages(_)
PendingImages(reads) ==
  IF reads = <<>> THEN 0 ELSE Len(Head(reads)) + PendingImages(Tail(reads))

RemoveAt(s, k) == SubSeq(s, 1, k - 1) \o SubSeq(s, k + 1, Len(s))

\* ImageUploader.processFiles: keep the image files and start reading them.
ProcessFiles(files) ==
  /\ AtRest
  /\ ~UploaderDisabled
  /\ LET validFiles == FilterFiles(files) IN
       /\ (nextId - 1) + PendingImages(pendingReads) + Len(validFiles) <= MaxItems
       /\ pendingReads' =
            IF Len(validFiles) = 0 THEN pendingReads
            ELSE Append(pendingReads, MapReadAsDataURL(validFiles))
  /\ lastOp' = Op("processFiles", 0)
  /\ UNCHANGED <<queue, customPrompt, aspectRatio, isProcessing, nextId,
                 itemsToProcess, idx, runPrompt, runRatio, pc, inflight, calls,
                 results>>

\* Promise.all(promises).then(images => onImagesSelected(images)), and
\* App.handleImagesSelect.
HandleImagesSelect(k) ==
  /\ AtRest
  /\ k \in DOMAIN pendingReads
  /\ queue' = HandleImagesSelectUpdate(queue, pendingReads[k], nextId)
  /\ nextId' = nextId + Len(pendingReads[k])
  /\ pendingReads' = RemoveAt(pendingReads, k)
  /\ lastOp' = Op("handleImagesSelect", 0)
  /\ UNCHANGED <<customPrompt, aspectRatio, isProcessing, itemsToProcess, idx,
                 runPrompt, runRatio, pc, inflight, calls, results>>

\* A read that ends without a string result never resolves its promise, so
\* Promise.all never calls onImagesSelected for the batch.
ReadNeverResolves(k) ==
  /\ AtRest
  /\ k \in DOMAIN pendingReads
  /\ pendingReads' = RemoveAt(pendingReads, k)
  /\ lastOp' = Op("readNeverResolves", 0)
  /\ UNCHANGED <<queue, customPrompt, aspectRatio, isProcessing, nextId,
                 itemsToProcess, idx, runPrompt, runRatio, pc, inflight, calls,
                 results>>

\* A click on an item's remove button: nothing happens while the button is
\* disabled, otherwise handleDeleteItem runs.
ClickRemove(id) ==
  /\ AtRest
  /\ id \in Ids(queue)
  /\ queue' = IF RemoveDisabled(ItemOf(queue, id)) THEN queue
              ELSE HandleDeleteItemUpdate(queue, id)
  /\ lastOp' = Op("remove", id)
  /\ UNCHANGED <<customPrompt, aspectRatio, isProcessing, nextId, pendingReads,
                 itemsToProcess, idx, runPrompt, runRatio, pc, inflight, calls,
                 results>>

ClickClear ==
  /\ AtRest
  /\ ClearShown
  /\ queue' = <<>>
  /\ lastOp' = Op("clear", 0)
  /\ UNCHANGED <<customPrompt, aspectRatio, isProcessing, nextId, pendingReads,
                 itemsToProcess, idx, runPrompt, runRatio, pc, inflight, calls,
                 results>>

SetAspectRatio(ratio) ==
  /\ AtRest
  /\ ~SettingsDisabled
  /\ aspectRatio' = ratio
  /\ lastOp' = Op("setAspectRatio", 0)
  /\ UNCHANGED <<queue, customPrompt, isProcessing, nextId, pendingReads,
                 itemsToProcess, idx, runPrompt, runRatio, pc, inflight, calls,
                 results>>

SetCustomPrompt(text) ==
  /\ AtRest
  /\ ~SettingsDisabled
  /\ customPrompt' = text
  /\ lastOp' = Op("setCustomPrompt", 0)
  /\ UNCHANGED <<queue, aspectRatio, isProcessing, nextId, pendingReads,
                 itemsToProcess, idx, runPrompt, runRatio, pc, inflight, calls,
                 results>>

\* --------------------------------------------------------- processQueue
\* A selection that takes every item.
EligibleAll(item) == TRUE

Eligible(item) == item.status = "idle" \/ item.status = "error"

\* A processQueue without its re-entrancy guard.
AlreadyRunningNever == FALSE

AlreadyRunning == isProcessing

\* processQueue up to its loop: the re-entrancy guard, the flag, and the
\* snapshot of the eligible items (with the closure's prompt and ratio).
ProcessQueue ==
  /\ AtRest
  /\ lastOp' = Op("processQueue", 0)
  /\ IF AlreadyRunning
     THEN UNCHANGED <<queue, customPrompt, aspectRatio, isProcessing, nextId,
                      pendingReads, itemsToProcess, idx, runPrompt, runRatio,
                      pc, inflight, calls, results>>
     ELSE /\ isProcessing' = TRUE
          /\ itemsToProcess' = SelectSeq(queue, Eligible)
          /\ idx' = 1
          /\ runPrompt' = customPrompt
          /\ runRatio' = aspectRatio
          /\ calls' = <<>>
          /\ results' = <<>>
          /\ pc' = "loop"
          /\ UNCHANGED <<queue, customPrompt, aspectRatio, nextId,
                         pendingReads, inflight>>

\* The start button: its click handler is processQueue, unless disabled.
ClickProcessButton ==
  /\ ~ProcessButtonDisabled
  /\ ProcessQueue

\* A loop that calls processItem without awaiting it.
ForLoopNoAwait ==
  /\ pc = "loop"
  /\ lastOp' = Op("forLoop", 0)
  /\ IF idx <= Len(itemsToProcess)
     THEN LET item == itemsToProcess[idx] IN
          /\ queue' = MarkProcessing(queue, item.id)
          /\ inflight' = inflight \cup {Request(item, runPrompt, runRatio)}
          /\ calls' = Append(calls, Request(item, runPrompt, runRatio))
          /\ idx' = idx + 1
          /\ pc' = "loop"
          /\ UNCHANGED <<customPrompt, aspectRatio, isProcessing, nextId,
                         pendingReads, itemsToProcess, runPrompt, runRatio,
                         results>>
     ELSE /\ isProcessing' = FALSE
          /\ pc' = "idle"
          /\ itemsToProcess' = <<>>
          /\ idx' = 1
          /\ runPrompt' = ""
          /\ runRatio' = SQUARE
          /\ calls' = <<>>
          /\ results' = <<>>
          /\ UNCHANGED <<queue, customPrompt, aspectRatio, nextId,
                         pendingReads, inflight>>

\* A loop over a live view of the store: at each turn the eligible items
\* that joined the queue since the run started are taken in as well.
ForLoopLive ==
  /\ pc = "loop"
  /\ lastOp' = Op("forLoop", 0)
  /\ LET live == itemsToProcess \o
                 SelectSeq(queue, LAMBDA i : /\ i.status = "idle"
                                             /\ i.id \notin {itemsToProcess[j].id : j \in DOMAIN itemsToProcess})
     IN
     IF idx <= Len(live)
     THEN LET item == live[idx] IN
          /\ queue' = MarkProcessing(queue, item.id)
          /\ inflight' = inflight \cup {Request(item, runPrompt, runRatio)}
          /\ calls' = Append(calls, Request(item, runPrompt, runRatio))
          /\ idx' = idx + 1
          /\ pc' = "await"
          /\ itemsToProcess' = live
          /\ UNCHANGED <<customPrompt, aspectRatio, isProcessing, nextId,
                         pendingReads, runPrompt, runRatio, results>>
     ELSE /\ isProcessing' = FALSE
          /\ pc' = "idle"
          /\ itemsToProcess' = <<>>
          /\ idx' = 1
          /\ runPrompt' = ""
          /\ runRatio' = SQUARE
          /\ calls' = <<>>
          /\ results' = <<>>
          /\ UNCHANGED <<queue, customPrompt, aspectRatio, nextId,
                         pendingReads, inflight>>

\* A loop that walks the selected items from the last to the first.
ForLoopReverse ==
  /\ pc = "loop"
  /\ lastOp' = Op("forLoop", 0)
  /\ IF idx <= Len(itemsToProcess)
     THEN LET item == itemsToProcess[Len(itemsToProcess) + 1 - idx] IN
          /\ queue' = MarkProcessing(queue, item.id)
          /\ inflight' = inflight \cup {Request(item, runPrompt, runRatio)}
          /\ calls' = Append(calls, Request(item, runPrompt, runRatio))
          /\ idx' = idx + 1
          /\ pc' = "await"
          /\ UNCHANGED <<customPrompt, aspectRatio, isProcessing, nextId,
                         pendingReads, itemsToProcess, runPrompt, runRatio,
                         results>>
     ELSE /\ isProcessing' = FALSE
          /\ pc' = "idle"
          /\ itemsToProcess' = <<>>
          /\ idx' = 1
          /\ runPrompt' = ""
          /\ runRatio' = SQUARE
          /\ calls' = <<>>
          /\ results' = <<>>
          /\ UNCHANGED <<queue, customPrompt, aspectRatio, nextId,
                         pendingReads, inflight>>

\* A loop that returns after the last item without lowering the flag.
ForLoopKeepsFlag ==
  /\ pc = "loop"
  /\ lastOp' = Op("forLoop", 0)
  /\ IF idx <= Len(itemsToProcess)
     THEN LET item == itemsToProcess[idx] IN
          /\ queue' = MarkProcessing(queue, item.id)
          /\ inflight' = inflight \cup {Request(item, runPrompt, runRatio)}
          /\ calls' = Append(calls, Request(item, runPrompt, runRatio))
          /\ idx' = idx + 1
          /\ pc' = "await"
          /\ UNCHANGED <<customPrompt, aspectRatio, isProcessing, nextId,
                         pendingReads, itemsToProcess, runPrompt, runRatio,
                         results>>
     ELSE /\ pc' = "idle"
          /\ itemsToProcess' = <<>>
          /\ idx' = 1
          /\ runPrompt' = ""
          /\ runRatio' = SQUARE
          /\ calls' = <<>>
          /\ results' = <<>>
          /\ UNCHANGED <<queue, customPrompt, aspectRatio, isProcessing,
                         nextId, pendingReads, inflight>>

\* A loop that passes over a selected item no longer in the queue.
ForLoopSkipsRemoved ==
  /\ pc = "loop"
  /\ lastOp' = Op("forLoop", 0)
  /\ IF idx <= Len(itemsToProcess)
     THEN LET item == itemsToProcess[idx] IN
          IF item.id \in Ids(queue)
          THEN /\ queue' = MarkProcessing(queue, item.id)
               /\ inflight' = inflight \cup {Request(item, runPrompt, runRatio)}
               /\ calls' = Append(calls, Request(item, runPrompt, runRatio))
               /\ idx' = idx + 1
               /\ pc' = "await"
               /\ UNCHANGED <<customPrompt, aspectRatio, isProcessing, nextId,
                              pendingReads, itemsToProcess, runPrompt, runRatio,
                              results>>
          ELSE /\ idx' = idx + 1
               /\ UNCHANGED <<queue, customPrompt, aspectRatio, isProcessing,
                              nextId, pendingReads, itemsToProcess, runPrompt,
                              runRatio, pc, inflight, calls, results>>
     ELSE /\ isProcessing' = FALSE
          /\ pc' = "idle"
          /\ itemsToProcess' = <<>>
          /\ idx' = 1
          /\ runPrompt' = ""
          /\ runRatio' = SQUARE
          /\ calls' = <<>>
          /\ results' = <<>>
          /\ UNCHANGED <<queue, customPrompt, aspectRatio, nextId,
                         pendingReads, inflight>>

\* The head of the for-of loop.  With an item left: processItem marks it
\* processing and sends its request, then awaits.  With none left: the
\* flag is lowered and processQueue returns.
ForLoop ==
  /\ pc = "loop"
  /\ lastOp' = Op("forLoop", 0)
  /\ IF idx <= Len(itemsToProcess)
     THEN LET item == itemsToProcess[idx] IN
          /\ queue' = MarkProcessing(queue, item.id)
          /\ inflight' = inflight \cup {Request(item, runPrompt, runRatio)}
          /\ calls' = Append(calls, Request(item, runPrompt, runRatio))
          /\ idx' = idx + 1
          /\ pc' = "await"
          /\ UNCHANGED <<customPrompt, aspectRatio, isProcessing, nextId,
                         pendingReads, itemsToProcess, runPrompt, runRatio,
                         results>>
     ELSE /\ isProcessing' = FALSE
          /\ pc' = "idle"
          /\ itemsToProcess' = <<>>
          /\ idx' = 1
          /\ runPrompt' = ""
          /\ runRatio' = SQUARE
          /\ calls' = <<>>
          /\ results' = <<>>
          /\ UNCHANGED <<queue, customPrompt, aspectRatio, nextId,
                         pendingReads, inflight>>

\* refineProductImage returns: processItem marks the item success.
AwaitReturns(req, outcome) ==
  /\ pc = "await"
  /\ req \in inflight
  /\ ~RefineProductImage(outcome).threw
  /\ queue' = MarkSuccess(queue, req.id, RefineProductImage(outcome).value)
  /\ inflight' = inflight \ {req}
  /\ results' = Append(results, [id |-> req.id, threw |-> FALSE])
  /\ pc' = "loop"
  /\ lastOp' = Op("awaitReturns", req.id)
  /\ UNCHANGED <<customPrompt, aspectRatio, isProcessing, nextId, pendingReads,
                 itemsToProcess, idx, runPrompt, runRatio, calls>>

\* A catch that records the error and throws it again: the loop is left and
\* the flag is never lowered.
AwaitThrowsAbort(req, outcome) ==
  /\ pc = "await"
  /\ req \in inflight
  /\ RefineProductImage(outcome).threw
  /\ queue' = MarkError(queue, req.id, RefineProductImage(outcome).message)
  /\ inflight' = inflight \ {req}
  /\ results' = Append(results, [id |-> req.id, threw |-> TRUE])
  /\ pc' = "idle"
  /\ lastOp' = OpWith("awaitThrows", req.id, RefineProductImage(outcome).message)
  /\ UNCHANGED <<customPrompt, aspectRatio, isProcessing, nextId, pendingReads,
                 itemsToProcess, idx, runPrompt, runRatio, calls>>

\* refineProductImage throws: processItem's catch marks the item error.
AwaitThrows(req, outcome) ==
  /\ pc = "await"
  /\ req \in inflight
  /\ RefineProductImage(outcome).threw
  /\ queue' = MarkError(queue, req.id, RefineProductImage(outcome).message)
  /\ inflight' = inflight \ {req}
  /\ results' = Append(results, [id |-> req.id, threw |-> TRUE])
  /\ pc' = "loop"
  /\ lastOp' = OpWith("awaitThrows", req.id, RefineProductImage(outcome).message)
  /\ UNCHANGED <<customPrompt, aspectRatio, isProcessing, nextId, pendingReads,
                 itemsToProcess, idx, runPrompt, runRatio, calls>>

\* Every step the user interface can take.
NextUI ==
  \/ \E files \in FileLists : ProcessFiles(files)
  \/ \E k \in 1..MaxItems : HandleImagesSelect(k)
  \/ \E k \in 1..MaxItems : ReadNeverResolves(k)
  \/ \E id \in 1..MaxItems : ClickRemove(id)
  \/ ClickClear
  \/ ClickProcessButton
  \/ ForLoop
  \/ \E req \in inflight, outcome \in ApiOutcomes : AwaitReturns(req, outcome)
  \/ \E req \in inflight, outcome \in ApiOutcomes : AwaitThrows(req, outcome)

\* The Button component that wraps the start button is not part of the
\* sources at hand, so processQueue is also taken as an operation of its
\* own, called whatever the button's disabled flag says.
Next ==
  \/ NextUI
  \/ ProcessQueue

\* The shared instruction and aspect ratio only flow into the requests.
\* Spec and SpecUI leave them as the user found them; SpecSettings is the
\* user interface with the ratio buttons and the instruction box as well.
NextSettings ==
  \/ NextUI
  \/ \E ratio \in RatioChoices : SetAspectRatio(ratio)
  \/ \E text \in PromptChoices : SetCustomPrompt(text)

Spec == Init /\ [][Next]_vars
SpecUI == Init /\ [][NextUI]_vars
SpecSettings == Init /\ [][NextSettings]_vars

\* The call in flight is answered: refineProductImage returns or throws.
CallAnswered ==
  \E req \in inflight, outcome \in ApiOutcomes :
    AwaitReturns(req, outcome) \/ AwaitThrows(req, outcome)

\* The user interface with a collaborator whose every call returns or throws
\* in the end, and a scheduler that resumes processQueue after each await.
SpecFair ==
  Init /\ [][NextUI]_vars /\ WF_vars(ForLoop) /\ WF_vars(CallAnswered)

\* ----------------------------------------------------------- properties
Last(s) == s[Len(s)]
ProcessingItems(q) == {k \in DOMAIN q : q[k].status = "processing"}
SnapshotIds == {itemsToProcess[j].id : j \in DOMAIN itemsToProcess}
RunStarts == ~isProcessing /\ isProcessing'
RunAtEnd == pc = "loop" /\ idx > Len(itemsToProcess)
Answered == Len(results') = Len(results) + 1
Issued == Len(calls') = Len(calls) + 1

C2_ErrorMessageOnlyOnError ==
  \A k \in DOMAIN queue :
    queue[k].errorMessage # Undefined => queue[k].status = "error"

\* C3: an item that is error when a run starts is selected by the run, goes
\* error -> processing -> (success or error), and has no errorMessage once
\* the retry has ended in success.
C3_RetryStep ==
  /\ RunStarts =>
       \A k \in DOMAIN queue :
         queue[k].status = "error" =>
           \E j \in DOMAIN itemsToProcess' : itemsToProcess'[j] = queue[k]
  /\ \A k \in DOMAIN queue :
       queue[k].id \in Ids(queue') =>
         LET before == queue[k]
             after == ItemOf(queue', queue[k].id)
         IN /\ before.status = "error" => after.status \in {"error", "processing"}
            /\ before.status = "processing" =>
                 after.status \in {"processing", "success", "error"}
            /\ (before.status = "processing" /\ after.status = "success") =>
                 after.errorMessage = Undefined

C3_RetryClearsError == [][C3_RetryStep]_vars

\* The part of C3 the code keeps: selection and the order of the statuses.
C3_RetryTransitions ==
  [][/\ RunStarts =>
          \A k \in DOMAIN queue :
            queue[k].status = "error" =>
              \E j \in DOMAIN itemsToProcess' : itemsToProcess'[j] = queue[k]
     /\ \A k \in DOMAIN queue :
          queue[k].id \in Ids(queue') =>
            LET before == queue[k]
                after == ItemOf(queue', queue[k].id)
            IN /\ before.status = "error" => after.status \in {"error", "processing"}
               /\ before.status = "processing" =>
                    after.status \in {"processing", "success", "error"}]_vars

\* C4: at every moment at most one collaborator call is in flight and at
\* most one item is processing; a call is issued only when every earlier
\* call of the run has been answered and its outcome stands on its item.
C4_OneCallAtATime ==
  /\ Cardinality(inflight) <= 1
  /\ Cardinality(ProcessingItems(queue)) <= 1
  /\ Len(calls) = Len(results) + Cardinality(inflight)
  /\ \A j \in DOMAIN results :
       /\ results[j].id = calls[j].id
       /\ results[j].id \in Ids(queue) =>
            ItemOf(queue, results[j].id).status =
              IF results[j].threw THEN "error" ELSE "success"

\* The second call of a run in flight, the first one answered.
C4_Witness ==
  /\ Cardinality(inflight) = 1
  /\ Len(calls) = 2 /\ Len(results) = 1
  /\ Cardinality(ProcessingItems(queue)) = 1
  /\ results[1].id \in Ids(queue)

\* C5: a processQueue trigger that arrives while a run is in progress
\* changes nothing: no item, no call, no second run.
C5_ReentrantTriggerNoOp ==
  [][(isProcessing /\ lastOp' = Op("processQueue", 0)) =>
       UNCHANGED <<queue, customPrompt, aspectRatio, isProcessing, nextId,
                   pendingReads, itemsToProcess, idx, runPrompt, runRatio, pc,
                   inflight, calls, results>>]_vars

\* A trigger has just been ignored while a call was in flight.
C5_Witness ==
  /\ lastOp = Op("processQueue", 0)
  /\ pc = "await" /\ isProcessing
  /\ inflight # {} /\ ProcessingItems(queue) # {}

\* C6: a failing call marks its own item error and nothing else, the run
\* goes on with the same selection, the flag is never left raised by an
\* escaped error, and at the end of the run every selected item has been
\* called and answered.
C6_Step ==
  /\ (Answered /\ Last(results').threw) =>
       /\ isProcessing' /\ pc' = "loop"
       /\ itemsToProcess' = itemsToProcess /\ idx' = idx
       /\ Len(queue') = Len(queue)
       /\ \A k \in DOMAIN queue :
            IF queue[k].id = Last(results').id
            THEN queue'[k].status = "error" /\ queue'[k].id = queue[k].id
            ELSE queue'[k] = queue[k]
  /\ pc' = "idle" => ~isProcessing'
  /\ RunAtEnd =>
       /\ Len(results) = Len(itemsToProcess)
       /\ \A j \in DOMAIN itemsToProcess :
            /\ results[j].id = itemsToProcess[j].id
            /\ results[j].id \in Ids(queue) =>
                 ItemOf(queue, results[j].id).status =
                   IF results[j].threw THEN "error" ELSE "success"

C6_FailureIsolated == [][C6_Step]_vars

\* The end of a run over three items that succeeded, failed, succeeded.
C6_Witness ==
  /\ RunAtEnd
  /\ Len(results) = 3
  /\ ~results[1].threw /\ results[2].threw /\ ~results[3].threw
  /\ Len(queue) = 3
  /\ queue[1].status = "success" /\ queue[2].status = "error"
  /\ queue[3].status = "success"

\* C7: an error item always has a non-empty errorMessage: the message the
\* failure carried, or "Failed" when it carried none or an empty one.
C7_Step ==
  /\ \A k \in DOMAIN queue' :
       queue'[k].status = "error" => Truthy(queue'[k].errorMessage)
  /\ (lastOp'.name = "awaitThrows" /\ lastOp'.id \in Ids(queue)) =>
       ItemOf(queue', lastOp'.id).errorMessage =
         IF lastOp'.arg \in {Undefined, ""} THEN "Failed" ELSE lastOp'.arg

C7_ErrorHasMessage == [][C7_Step]_vars

\* One item failed with a message of its own; another has just failed
\* with an empty message and holds the fallback.
C7_Witness ==
  \E j, k \in DOMAIN queue :
    /\ queue[j].status = "error" /\ queue[j].errorMessage = NoImageMessage
    /\ lastOp = OpWith("awaitThrows", queue[k].id, "")
    /\ queue[k].status = "error" /\ queue[k].errorMessage = "Failed"

\* C8: a success item is never selected, never called and never changed
\* again; a run started over success items only selects nothing and ends
\* without a call.
C8_Step ==
  /\ \A k \in DOMAIN queue :
       queue[k].status = "success" =>
         /\ queue[k].id \in Ids(queue') => ItemOf(queue', queue[k].id) = queue[k]
         /\ RunStarts =>
              queue[k].id \notin {itemsToProcess'[j].id : j \in DOMAIN itemsToProcess'}
         /\ Issued => Last(calls').id # queue[k].id
  /\ (RunStarts /\ \A k \in DOMAIN queue : queue[k].status = "success") =>
       itemsToProcess' = <<>>
  /\ (RunAtEnd /\ itemsToProcess = <<>>) => (calls = <<>> /\ queue' = queue)

C8_SuccessNeverReselected == [][C8_Step]_vars

\* A run over a queue of success items only is about to end, nothing called.
C8_Witness ==
  /\ RunAtEnd /\ isProcessing
  /\ itemsToProcess = <<>> /\ calls = <<>>
  /\ queue # <<>>
  /\ \A k \in DOMAIN queue : queue[k].status = "success"

\* C9: the items a run processes are those idle or error when it starts;
\* the selection does not change during the run, every call is for one of
\* them, and any other item is left as it is by the run.
C9_Step ==
  /\ RunStarts =>
       itemsToProcess' =
         SelectSeq(queue, LAMBDA i : i.status \in {"idle", "error"})
  /\ (isProcessing /\ isProcessing') => itemsToProcess' = itemsToProcess
  /\ Issued => Last(calls').id \in SnapshotIds
  /\ isProcessing =>
       \A k \in DOMAIN queue :
         (queue[k].id \notin SnapshotIds /\ queue[k].id \in Ids(queue')) =>
           ItemOf(queue', queue[k].id) = queue[k]

C9_SelectionFixedAtStart == [][C9_Step]_vars

\* A run is about to end and an item added during it is still idle.
C9_Witness ==
  /\ RunAtEnd /\ Len(itemsToProcess) >= 1
  /\ \E k \in DOMAIN queue :
       queue[k].status = "idle" /\ queue[k].id \notin SnapshotIds

\* C10: a remove request for a processing item changes nothing, so the item
\* a call's outcome is recorded for is always still in the queue.
C10_RemoveRejected ==
  \A k \in DOMAIN queue :
    (queue[k].status = "processing" /\ lastOp' = Op("remove", queue[k].id)) =>
      (Len(queue') = Len(queue) /\ queue'[k] = queue[k])

C10_InFlightItemInQueue ==
  [][/\ C10_RemoveRejected
     /\ Answered => Last(results').id \in Ids(queue)]_vars

\* C10 as amended: a remove request for a processing item changes nothing,
\* so a processing item stays in the queue, unchanged, until the outcome of
\* its call is recorded on it.
C10_ProcessingItemStays ==
  [][/\ C10_RemoveRejected
     /\ \A k \in DOMAIN queue :
          queue[k].status = "processing" =>
            /\ queue[k].id \in Ids(queue')
            /\ \/ ItemOf(queue', queue[k].id) = queue[k]
               \/ /\ Answered
                  /\ Last(results').id = queue[k].id
                  /\ ItemOf(queue', queue[k].id).status \in {"success", "error"}]_vars

\* A remove request for the processing item has just been rejected.
C10_Witness ==
  /\ lastOp.name = "remove"
  /\ lastOp.id \in Ids(queue)
  /\ ItemOf(queue, lastOp.id).status = "processing"
  /\ \E req \in inflight : req.id = lastOp.id

\* C11: clear takes effect only outside a run, where it leaves the queue
\* empty; while a run is in progress no step is a clear, and the queue is
\* emptied, if at all, by removing its last item.
C11_ClearOnlyOutsideRun ==
  [][/\ lastOp'.name = "clear" =>
          (~isProcessing /\ ~isProcessing' /\ queue # <<>> /\ queue' = <<>>)
     /\ (isProcessing /\ queue # <<>> /\ queue' = <<>>) =>
          lastOp'.name = "remove"]_vars

\* A queue that has held items has just been cleared, no run in progress.
C11_Witness ==
  /\ lastOp.name = "clear"
  /\ queue = <<>> /\ nextId > 1
  /\ ~isProcessing /\ pc = "idle"

\* C12: whenever no run is in progress and some item is error, a run can be
\* started from the start button, whether or not any item is idle, and the
\* run that starts selects every error item.
C12_ErrorItemsCanBeRetried ==
  [][/\ (~isProcessing /\ pc = "idle" /\
           \E k \in DOMAIN queue : queue[k].status = "error") =>
          ENABLED ClickProcessButton
     /\ RunStarts =>
          \A k \in DOMAIN queue :
            queue[k].status = "error" =>
              \E j \in DOMAIN itemsToProcess' : itemsToProcess'[j] = queue[k]]_vars

\* C13: every call of a run carries the aspect ratio and the instruction
\* selected when the run was triggered, the same for all its items; a
\* non-empty instruction stands verbatim at the end of the request text and
\* an empty one is replaced by the default instruction.
C13_CallsCarrySettings ==
  /\ isProcessing => (runRatio = aspectRatio /\ runPrompt = customPrompt)
  /\ \A c \in {calls[j] : j \in DOMAIN calls} \cup inflight :
       /\ c.aspectRatio = aspectRatio
       /\ c.text = PromptHead \o
            (IF customPrompt = "" THEN DefaultInstruction ELSE customPrompt)

\* The second call of a run started with ratio 3:4 and a custom instruction.
C13_Witness ==
  /\ Len(calls) = 2 /\ inflight = {calls[2]}
  /\ calls[1].aspectRatio = PORTRAIT /\ calls[2].aspectRatio = PORTRAIT
  /\ calls[1].text = PromptHead \o "pure white background"
  /\ calls[2].text = PromptHead \o "pure white background"
  /\ calls[1].id # calls[2].id

\* The position in q of the item with this id.
PosOf(q, id) == CHOOSE k \in DOMAIN q : q[k].id = id

\* C14: the selected items of a run are processed in queue order: the calls
\* and their outcomes follow the selection, which follows the queue; when an
\* item is processing or has had its call issued, every selected item before
\* it has had its outcome recorded and, if still in the queue, is success or
\* error.
C14_ProcessedInQueueOrder ==
  /\ \A j \in DOMAIN calls : calls[j].id = itemsToProcess[j].id
  /\ \A j \in DOMAIN results : results[j].id = itemsToProcess[j].id
  /\ Len(calls) <= Len(itemsToProcess)
  /\ Len(results) <= Len(calls) /\ Len(calls) <= Len(results) + 1
  /\ \A a, b \in DOMAIN itemsToProcess :
       a < b =>
         LET ida == itemsToProcess[a].id
             idb == itemsToProcess[b].id
         IN /\ (ida \in Ids(queue) /\ idb \in Ids(queue)) =>
                 PosOf(queue, ida) < PosOf(queue, idb)
            /\ (b <= Len(calls) \/
                (idb \in Ids(queue) /\
                 ItemOf(queue, idb).status = "processing")) =>
                 /\ a <= Len(results)
                 /\ ida \in Ids(queue) =>
                      ItemOf(queue, ida).status \in {"success", "error"}

\* Three selected items: the first succeeded, the second failed, the third
\* is in flight.
C14_Witness ==
  /\ Len(itemsToProcess) = 3 /\ Len(calls) = 3 /\ Len(results) = 2
  /\ ~results[1].threw /\ results[2].threw
  /\ Len(queue) = 3
  /\ queue[1].status = "success" /\ queue[2].status = "error"
  /\ queue[3].status = "processing"
  /\ inflight = {calls[3]}

RunEnds == isProcessing /\ ~isProcessing'

\* C15: with every call answered in the end, a run in progress ends: the flag
\* goes back to false; in the step that lowers it every selected item has had
\* its call answered, no item is processing, and every selected item still in
\* the queue is success or error.
C15_RunEnds ==
  /\ isProcessing ~> ~isProcessing
  /\ [][RunEnds =>
          /\ Len(results) = Len(itemsToProcess) /\ inflight = {}
          /\ ProcessingItems(queue') = {}
          /\ \A k \in DOMAIN queue' :
               queue'[k].id \in SnapshotIds =>
                 queue'[k].status \in {"success", "error"}]_vars

\* A run has just ended, leaving a success and an error item behind.
C15_Witness ==
  /\ lastOp.name = "forLoop" /\ ~isProcessing /\ pc = "idle"
  /\ \E j, k \in DOMAIN queue :
       queue[j].status = "success" /\ queue[k].status = "error"
  /\ ProcessingItems(queue) = {}

StatusSteps ==
  {<<"idle", "processing">>, <<"error", "processing">>,
   <<"processing", "success">>, <<"processing", "error">>}

\* C16: in every step an item that stays in the queue keeps its status or
\* changes it along idle -> processing, error -> processing,
\* processing -> success or processing -> error, and an item that enters the
\* queue is idle.
C16_StatusTransitions ==
  [][\A k \in DOMAIN queue' :
       IF queue'[k].id \in Ids(queue)
       THEN LET before == ItemOf(queue, queue'[k].id).status
                after == queue'[k].status
            IN before = after \/ <<before, after>> \in StatusSteps
       ELSE queue'[k].status = "idle"]_vars

\* An item that failed in an earlier run has just been marked processing
\* again by the loop.
C16_Witness ==
  /\ lastOp.name = "forLoop" /\ pc = "await"
  /\ \E k \in DOMAIN queue :
       /\ queue[k].status = "processing"
       /\ queue[k].errorMessage # Undefined
       /\ ItemOf(itemsToProcess, queue[k].id).status = "error"

WorkflowStep == lastOp'.name \in {"forLoop", "awaitReturns", "awaitThrows"}

\* The id of the item a workflow step updates; 0 when the loop ends.
TargetId ==
  IF lastOp'.name = "forLoop"
  THEN IF idx <= Len(itemsToProcess) THEN itemsToProcess[idx].id ELSE 0
  ELSE lastOp'.id

\* C17: a status update of the workflow keeps the queue's length and order,
\* leaves every item but the targeted one as it was, changes at most one
\* item, and on that item changes nothing but status, generated and
\* errorMessage.
C17_UpdateFrame ==
  [][WorkflowStep =>
       /\ Len(queue') = Len(queue)
       /\ \A k \in DOMAIN queue :
            /\ queue'[k].id = queue[k].id
            /\ queue'[k].original = queue[k].original
            /\ queue'[k].error = queue[k].error
            /\ queue[k].id # TargetId => queue'[k] = queue[k]
       /\ Cardinality({k \in DOMAIN queue : queue'[k] # queue[k]}) <= 1]_vars

\* The success of the second of three items has just been recorded.
C17_Witness ==
  /\ lastOp.name = "awaitReturns"
  /\ Len(queue) = 3
  /\ queue[2].id = lastOp.id /\ queue[2].status = "success"
  /\ queue[1].status = "error" /\ queue[3].status = "idle"

\* What reading an image file can give.
ImageDataURLs == {ReadAsDataURL(f) : f \in {g \in Files : StartsWithImage(g.type)}}

\* queue' is queue followed by one idle item per element of batch, in order.
AppendsBatch(batch) ==
  /\ Len(batch) >= 1
  /\ Len(queue') = Len(queue) + Len(batch)
  /\ SubSeq(queue', 1, Len(queue)) = queue
  /\ \A j \in DOMAIN batch :
       LET new == queue'[Len(queue) + j] IN
         /\ new.original = batch[j]
         /\ new.original \in ImageDataURLs
         /\ new.status = "idle"
         /\ new.generated = Null
         /\ new.errorMessage = Undefined
         /\ new.id \notin Ids(queue)
         /\ \A i \in DOMAIN batch : i # j => queue'[Len(queue) + i].id # new.id

CallsFor(id) == Cardinality({j \in DOMAIN calls : calls[j].id = id})

\* C19: a run issues one call for each item it selected, removed from the
\* queue or not: the items the loop has passed have had exactly one call
\* each, in the queue or not, the others none yet, and when the run ends
\* every selected item has had exactly one.
C19_OneCallPerSelectedItem ==
  [][/\ \A j \in DOMAIN itemsToProcess :
          CallsFor(itemsToProcess[j].id) = (IF j < idx THEN 1 ELSE 0)
     /\ Len(calls) = idx - 1
     /\ \A j \in DOMAIN calls : calls[j].id \in SnapshotIds
     /\ RunEnds =>
          \A j \in DOMAIN itemsToProcess : CallsFor(itemsToProcess[j].id) = 1]_vars

\* The call for a selected item that was removed before its turn is in
\* flight.
C19_Witness ==
  /\ pc = "await" /\ lastOp.name = "forLoop"
  /\ Len(calls) >= 2
  /\ Last(calls) \in inflight
  /\ Last(calls).id \in SnapshotIds
  /\ Last(calls).id \notin Ids(queue)

\* C20: an item that has left the queue never comes back: the items that
\* enter the queue carry identifiers not handed out before; and a workflow
\* update for a selected item that is no longer in the queue (marking it
\* processing, recording its success or its failure) leaves the queue as it
\* is.
C20_RemovedNeverReappears ==
  [][/\ \A k \in DOMAIN queue' :
          queue'[k].id \in Ids(queue) \/ queue'[k].id >= nextId
     /\ (WorkflowStep /\ TargetId # 0 /\ TargetId \notin Ids(queue)) =>
          /\ queue' = queue
          /\ ProcessingItems(queue') = ProcessingItems(queue)]_vars

\* The success of a call has just been recorded for an item that was removed
\* before its turn; the queue holds other items and none is processing.
C20_Witness ==
  /\ lastOp.name = "awaitReturns"
  /\ lastOp.id \in SnapshotIds
  /\ lastOp.id \notin Ids(queue)
  /\ queue # <<>>
  /\ ProcessingItems(queue) = {}

\* C21: in every reachable state an item with status processing implies
\* that isProcessing is true: with no run in progress no item of the queue
\* is processing.
C21_ProcessingOnlyDuringRun ==
  /\ ProcessingItems(queue) # {} => isProcessing
  /\ ~isProcessing => \A k \in DOMAIN queue : queue[k].status # "processing"

\* The run is past a failed item and the next item is processing, its call
\* in flight.
C21_Witness ==
  /\ isProcessing /\ pc = "await"
  /\ Len(results) >= 1 /\ Last(results).threw
  /\ \E k \in ProcessingItems(queue) : \E req \in inflight : req.id = queue[k].id
  /\ \E k \in DOMAIN queue : queue[k].status = "error"
====
